---- MODULE Spec2Model ----
(***************************************************************************)
(* fastDeploy: step reconciliation (deploy/domain/model.py), scoped       *)
(* tokens (deploy/auth.py) and the deployment task (app/tasks.py).         *)
(***************************************************************************)
EXTENDS Integers, Sequences, FiniteSets, TLC

VARIABLES
    deployment,   \* the DeploymentPydantic row process_step is called on
    steps,        \* the step table, rows in creation order (id = position)
    last,         \* the last process_step call: incoming step and outcome
    hb,           \* per name: row the latest event of that name was applied
                  \* to when that event reported "running", else 0
    overlap,      \* TRUE once an event reporting "running" was processed
                  \* while a step of the deployment was running
    clock,        \* datetime.utcnow(), in minutes
    token,        \* the bearer token the client holds
    grant,        \* how that token was made: time, expires_delta, signer
    uow,          \* persisted users, services and deployments
    auth,         \* outcome of the request handled by the step just taken
    revoked,      \* TRUE from the moment the entity the token names is deleted
    stdout,       \* lines the deploy script has written and the task not read
    pc,           \* where DeployTask.run_deploy stands
    message,      \* the parsed event being forwarded, <<>> if none
    attempt,      \* loop variable of "for attempt in range(3)"
    r,            \* local r of process_deploy_event: unbound or a response
    posts,        \* client.post calls made for the current event
    fails,        \* httpx.ConnectError raised for the current event
    delivered,    \* events the ingestion endpoint received, in order
    emitted,      \* every line the deploy script writes, in order
    parsed,       \* lines handed to process_deploy_event so far
    settled,      \* of those, the ones delivered or given up after the retries
    source_services, \* sync_services: the services found on the filesystem
    target_services, \* sync_services: the services in the database
    synced,        \* what the last sync_services call returned, <<>> if none
    todo_service, \* the service whose steps to do are asked for
    todo, \* the answer of the last steps-to-do call, <<>> if none
    service_events, \* Service.events, the one list of the class Service
    bus, \* per unit of work: status, services loaded, events produced, dispatches
    db_steps, \* the persisted step rows the stepped calls work on
    db_start, \* those rows before any call began
    calls, \* per request: where its process_step call stands, its event, the rows it loaded
    catalog, \* get_deployment_details: the persisted services and deployments
    answer, \* the answer to the last get_deployment_details request, <<>> if none
    sync_applied \* TRUE once the result of sync_services was stored

stepVars == <<deployment, steps, last, hb, overlap>>
authVars == <<clock, token, grant, uow, auth, revoked>>
taskVars == <<stdout, pc, message, attempt, r, posts, fails, delivered,
              emitted, parsed, settled>>
syncVars == <<source_services, target_services, synced>>
todoVars == <<todo_service, todo>>
busVars == <<service_events, bus>>
callVars == <<db_steps, db_start, calls>>
detailVars == <<catalog, answer>>
applyVars == <<sync_applied>>
restVars == <<syncVars, todoVars, busVars, callVars, detailVars, applyVars>>
vars == <<deployment, steps, last, hb, overlap,
          clock, token, grant, uow, auth, revoked,
          stdout, pc, message, attempt, r, posts, fails, delivered,
          emitted, parsed, settled,
          source_services, target_services, synced,
          todo_service, todo,
          service_events, bus,
          db_steps, db_start, calls,
          catalog, answer,
          sync_applied>>

SyncIdle ==
    /\ source_services = <<>>
    /\ target_services = <<>>
    /\ synced = <<>>

TodoIdle ==
    /\ todo_service = <<>>
    /\ todo = <<>>

BusIdle ==
    /\ service_events = <<>>
    /\ bus = <<>>

CallsIdle ==
    /\ db_steps = <<>>
    /\ db_start = <<>>
    /\ calls = <<>>

DetailsIdle ==
    /\ catalog = <<>>
    /\ answer = <<>>

ApplyIdle == sync_applied = FALSE

RestIdle == SyncIdle /\ TodoIdle /\ BusIdle /\ CallsIdle /\ DetailsIdle /\ ApplyIdle

\* ---------------------------------------------------------------- bounds
MaxSteps == 3     \* cap on the number of step rows of the deployment

\* ------------------------------------------------------------ step model
NULL == 0         \* Python None for ids and timestamps
Now == 1          \* datetime.now(timezone.utc), a non-null timestamp
DeploymentId == 1 \* self.id of the deployment under reconciliation

StepNames == {"A", "B"}
StepStates == {"pending", "running", "success", "failure"}
Messages == {"m"}   \* message text of an event; rows start with ""
Timestamps == {NULL, Now}
Terminal == {"success", "failure"}

\* Step.__init__: a step as the ingestion endpoint builds it from one event
Step(name, state, text, started) ==
    [id |-> NULL, name |-> name, started |-> started, finished |-> NULL,
     state |-> state, message |-> text, deployment_id |-> NULL]

\* one event line carries name, state and message, so started is None
IncomingSteps ==
    {Step(n, s, m, NULL) : n \in StepNames, s \in StepStates, m \in Messages}

\* repository.get_steps_by_deployment_id: the deployment's rows, creation order
get_steps_by_deployment_id(table, id) ==
    SelectSeq(table, LAMBDA s : s.deployment_id = id)

\* repository.update_step: write the row back under its id, return it
update_step(table, step) ==
    [i \in 1..Len(table) |-> IF table[i].id = step.id THEN step ELSE table[i]]

\* repository.add_step: insert the row under a fresh id, return it
add_step(table, step) ==
    Append(table, [step EXCEPT !.id = Len(table) + 1])

\* running_steps = [step for step in steps if step.state == "running"]
running_steps(loaded) == SelectSeq(loaded, LAMBDA s : s.state = "running")

\* pending_steps = [step for step in steps if step.state == "pending"]
pending_steps(loaded) == SelectSeq(loaded, LAMBDA s : s.state = "pending")

\* variant: the last candidate of the name is taken instead of the first
first_named_last(candidates, name) ==
    LET hits == SelectSeq(candidates, LAMBDA s : s.name = name)
    IN  IF Len(hits) > 0 THEN <<hits[Len(hits)]>> ELSE <<>>

\* for x in candidates: if x.name == name: known_step = x; break
\* (<<>> is None, <<x>> the step found)
first_named(candidates, name) ==
    LET hits == SelectSeq(candidates, LAMBDA s : s.name = name)
    IN  IF Len(hits) > 0 THEN <<hits[1]>> ELSE <<>>

\* known_step after the loop over running_steps
running_match(loaded, step) == first_named(running_steps(loaded), step.name)

\* variant: steps of every state are searched, finished ones too
known_step_any_state(loaded, step) == first_named(loaded, step.name)

\* variant: the pending steps are searched before the running ones
known_step_pending_first(loaded, step) ==
    IF first_named(pending_steps(loaded), step.name) # <<>>
    THEN first_named(pending_steps(loaded), step.name)
    ELSE running_match(loaded, step)

\* known_step after both loops: a running match wins over a pending one
known_step(loaded, step) ==
    IF running_match(loaded, step) # <<>>
    THEN running_match(loaded, step)
    ELSE first_named(pending_steps(loaded), step.name)

\* variant: promotion also when the incoming step matched a pending step
next_pending_step_on_pending(loaded, step) ==
    IF /\ known_step(loaded, step) # <<>>
       /\ Len(pending_steps(loaded)) > 0
       /\ step.state # "failure"
    THEN <<[pending_steps(loaded)[1] EXCEPT !.state = "running"]>>
    ELSE <<>>

\* variant: the last pending step is promoted instead of the first
next_pending_step_last(loaded, step) ==
    IF /\ running_match(loaded, step) # <<>>
       /\ Len(pending_steps(loaded)) > 0
       /\ step.state # "failure"
    THEN <<[pending_steps(loaded)[Len(pending_steps(loaded))]
               EXCEPT !.state = "running"]>>
    ELSE <<>>

\* variant: the failure check is missing
next_pending_step_on_failure(loaded, step) ==
    IF /\ running_match(loaded, step) # <<>>
       /\ Len(pending_steps(loaded)) > 0
    THEN <<[pending_steps(loaded)[1] EXCEPT !.state = "running"]>>
    ELSE <<>>

\* variant: promotion also when the incoming step matched no running step
next_pending_step_always(loaded, step) ==
    IF /\ Len(pending_steps(loaded)) > 0
       /\ step.state # "failure"
    THEN <<[pending_steps(loaded)[1] EXCEPT !.state = "running"]>>
    ELSE <<>>

\* the else branch: the next pending step, set to running, when a running
\* step was matched and the incoming step has not failed (<<>> otherwise)
next_pending_step(loaded, step) ==
    IF /\ running_match(loaded, step) # <<>>
       /\ Len(pending_steps(loaded)) > 0
       /\ step.state # "failure"
    THEN <<[pending_steps(loaded)[1] EXCEPT !.state = "running"]>>
    ELSE <<>>

\* variant: finished is not stamped on the unknown step
new_step_unstamped(step, id) ==
    [step EXCEPT !.deployment_id = id]

\* the unknown step as it is handed to repository.add_step
new_step(step, id) ==
    [step EXCEPT !.finished = Now, !.deployment_id = id]

\* variant: finished is not stamped on the known step
updated_known_step_unstamped(known, step) ==
    [known EXCEPT !.started = step.started,
                  !.state = step.state, !.message = step.message]

\* the known step as it is handed to repository.update_step
updated_known_step(known, step) ==
    [known EXCEPT !.started = step.started, !.finished = Now,
                  !.state = step.state, !.message = step.message]

\* the table after process_step(step) got past its two guards
reconciled(table, id, step) ==
    LET loaded == get_steps_by_deployment_id(table, id)
        np == next_pending_step(loaded, step)
        ks == known_step(loaded, step)
        promoted == IF np # <<>> THEN update_step(table, np[1]) ELSE table
    IN  IF ks = <<>>
        THEN add_step(promoted, new_step(step, id))
        ELSE update_step(promoted, updated_known_step(ks[1], step))

\* variant: the finished guard is missing
outcome_of_unguarded(dep, table, step) ==
    IF dep.started = NULL THEN "DeploymentNotStarted"
    ELSE IF known_step(get_steps_by_deployment_id(table, dep.id), step) = <<>>
         THEN "created" ELSE "updated"

\* variant: the finished guard is tested before the started guard
outcome_of_finished_first(dep, table, step) ==
    IF dep.finished # NULL THEN "DeploymentAlreadyFinished"
    ELSE IF dep.started = NULL THEN "DeploymentNotStarted"
    ELSE IF known_step(get_steps_by_deployment_id(table, dep.id), step) = <<>>
         THEN "created" ELSE "updated"

\* what the call reports: the exception raised, or the row returned
outcome_of(dep, table, step) ==
    IF dep.started = NULL THEN "DeploymentNotStarted"
    ELSE IF dep.finished # NULL THEN "DeploymentAlreadyFinished"
    ELSE IF known_step(get_steps_by_deployment_id(table, dep.id), step) = <<>>
         THEN "created" ELSE "updated"

\* id of the row process_step returns
returned_id(table, id, step) ==
    LET ks == known_step(get_steps_by_deployment_id(table, id), step)
    IN  IF ks = <<>> THEN Len(table) + 1 ELSE ks[1].id

NoCall ==
    [outcome |-> "none", step |-> Step("A", "pending", "", NULL),
     returned |-> 0, promoted |-> 0, matched |-> "none", heartbeat |-> 0]

\* DeploymentPydantic.process_step(step)
process_step(step) ==
    LET out == outcome_of(deployment, steps, step)
        loaded == get_steps_by_deployment_id(steps, deployment.id)
        np == next_pending_step(loaded, step)
    IN  /\ out = "created" => Len(steps) < MaxSteps
        /\ IF out \in {"DeploymentNotStarted", "DeploymentAlreadyFinished"}
           THEN /\ UNCHANGED <<steps, hb, overlap>>
                /\ last' = [NoCall EXCEPT !.outcome = out, !.step = step]
           ELSE /\ steps' = reconciled(steps, deployment.id, step)
                /\ last' = [outcome |-> out, step |-> step,
                            returned |-> returned_id(steps, deployment.id, step),
                            promoted |-> IF np # <<>> THEN np[1].id ELSE 0,
                            matched |->
                              IF running_match(loaded, step) # <<>> THEN "running"
                              ELSE IF out = "updated" THEN "pending" ELSE "none",
                            heartbeat |-> hb[step.name]]
                /\ hb' = [hb EXCEPT ![step.name] =
                            IF step.state = "running"
                            THEN returned_id(steps, deployment.id, step) ELSE 0]
                /\ overlap' = (overlap \/ (step.state = "running"
                                            /\ Len(running_steps(loaded)) > 0))
        /\ UNCHANGED deployment
        /\ UNCHANGED authVars
        /\ UNCHANGED <<taskVars, restVars>>

\* ------------------------------------------------------- deployment task
MaxLines == 3        \* lines the deploy script writes before it exits
MaxAttempts == 3     \* range(3)

\* a line of output: a JSON event, or text that is not JSON
Lines == {"a", "b", "#"}

\* json.loads(decoded): <<>> stands for json.decoder.JSONDecodeError
json_loads(line) == IF line = "#" THEN <<>> ELSE <<[name |-> line]>>

\* what client.post returns: a response whose body is JSON, or is not
Responses == {"json", "text"}

\* variant: the next line is read while the retry of the last event sleeps
readline_eager ==
    /\ pc \in {"readline", "sleep"}
    /\ IF stdout = <<>>
       THEN /\ pc' = "done"
            /\ UNCHANGED <<stdout, message, attempt, r, posts, fails, parsed>>
       ELSE /\ stdout' = Tail(stdout)
            /\ IF json_loads(Head(stdout)) = <<>>
               THEN /\ pc' = "readline"
                    /\ UNCHANGED <<message, attempt, r, posts, fails, parsed>>
               ELSE /\ pc' = "post"
                    /\ message' = json_loads(Head(stdout))
                    /\ attempt' = 0
                    /\ r' = "unbound"
                    /\ posts' = 0
                    /\ fails' = 0
                    /\ parsed' = parsed + 1
    /\ UNCHANGED <<delivered, emitted, settled>>
    /\ UNCHANGED <<stepVars, authVars, restVars>>

\* data = await proc.stdout.readline(), up to the call of process_deploy_event
readline ==
    /\ pc = "readline"
    /\ IF stdout = <<>>
       THEN /\ pc' = "done"
            /\ UNCHANGED <<stdout, message, attempt, r, posts, fails, parsed>>
       ELSE /\ stdout' = Tail(stdout)
            /\ IF json_loads(Head(stdout)) = <<>>
               THEN /\ pc' = "readline"
                    /\ UNCHANGED <<message, attempt, r, posts, fails, parsed>>
               ELSE /\ pc' = "post"
                    /\ message' = json_loads(Head(stdout))
                    /\ attempt' = 0
                    /\ r' = "unbound"
                    /\ posts' = 0
                    /\ fails' = 0
                    /\ parsed' = parsed + 1
    /\ UNCHANGED <<delivered, emitted, settled>>
    /\ UNCHANGED <<stepVars, authVars, restVars>>

\* r = await client.post(...) returns; break
post_response ==
    /\ pc = "post"
    /\ \E response \in Responses : r' = response
    /\ posts' = posts + 1
    /\ delivered' = Append(delivered, message[1])
    /\ pc' = "print"
    /\ settled' = settled + 1
    /\ UNCHANGED <<stdout, message, attempt, fails, emitted, parsed>>
    /\ UNCHANGED <<stepVars, authVars, restVars>>

\* client.post raises httpx.ConnectError
post_connect_error ==
    /\ pc = "post"
    /\ posts' = posts + 1
    /\ fails' = fails + 1
    /\ pc' = "sleep"
    /\ UNCHANGED <<stdout, message, attempt, r, delivered,
                   emitted, parsed, settled>>
    /\ UNCHANGED <<stepVars, authVars, restVars>>

\* await asyncio.sleep(3) returns and the for loop takes its next turn
sleep ==
    /\ pc = "sleep"
    /\ attempt' = attempt + 1
    /\ pc' = IF attempt + 1 < MaxAttempts THEN "post" ELSE "print"
    /\ settled' = IF attempt + 1 < MaxAttempts THEN settled ELSE settled + 1
    /\ UNCHANGED <<stdout, message, r, posts, fails, delivered,
                   emitted, parsed>>
    /\ UNCHANGED <<stepVars, authVars, restVars>>

\* print("response: ", r.status_code, r.json()): an unbound r raises
\* UnboundLocalError, which run_deploy does not catch; a body that is not
\* JSON raises JSONDecodeError, which run_deploy catches
print_response ==
    /\ pc = "print"
    /\ pc' = IF r = "unbound" THEN "crashed" ELSE "readline"
    /\ UNCHANGED <<stdout, message, attempt, r, posts, fails, delivered,
                   emitted, parsed, settled>>
    /\ UNCHANGED <<stepVars, authVars, restVars>>

TaskIdle ==
    /\ stdout = <<>>
    /\ pc = "done"
    /\ message = <<>>
    /\ attempt = 0
    /\ r = "unbound"
    /\ posts = 0
    /\ fails = 0
    /\ delivered = <<>>
    /\ emitted = <<>>
    /\ parsed = 0
    /\ settled = 0

\* ---------------------------------------------------------- token model
MaxTime == 3            \* the clock stops here
MaxDelta == 2           \* longest expires_delta a token is issued with
MaxDeployments == 2     \* cap on the deployment ids handed out
DefaultExpireMinutes == 15

SecretKey == "secret_key"
Keys == {SecretKey, "other_key"}
PrincipalTypes == {"user", "service", "deployment"}
UserNames == {"u"}
ServiceNames == {"s"}
DeploymentIds == 1..MaxDeployments

\* the claims maps tokens are created from (conftest.py, tasks.py), and
\* service and deployment claims that lack their identifying key
Payloads ==
    {[type |-> "user", user |-> n] : n \in UserNames}
    \cup {[type |-> "service", service |-> n] : n \in ServiceNames}
    \cup {[type |-> "deployment", deployment |-> i] : i \in DeploymentIds}
    \cup {[type |-> "service"], [type |-> "deployment"]}

\* expires_delta: <<>> is None, <<d>> is timedelta(minutes=d)
Deltas == {<<>>} \cup {<<d>> : d \in 0..MaxDelta}

\* variant: only None selects the default expiry
expire_at_explicit(expires_delta, now) ==
    IF expires_delta # <<>> THEN now + expires_delta[1]
    ELSE now + DefaultExpireMinutes

\* "if expires_delta:" is false for None and for a zero timedelta
expire_at(expires_delta, now) ==
    IF expires_delta # <<>> /\ expires_delta[1] # 0
    THEN now + expires_delta[1]
    ELSE now + DefaultExpireMinutes

\* jwt.encode: the claims, signed with the key
jwt_encode(claims, key) == [claims |-> claims, key |-> key]

\* create_access_token(payload, expires_delta)
create_access_token(payload, expires_delta, now) ==
    jwt_encode([exp |-> expire_at(expires_delta, now)] @@ payload, SecretKey)

Raise(error) == [error |-> error, value |-> <<>>, lookups |-> 0]
Return(value, lookups) == [error |-> "", value |-> <<value>>, lookups |-> lookups]

\* token_to_payload(token): jwt.decode checks the signature, then exp
token_to_payload(tok, now) ==
    IF tok.key # SecretKey THEN Raise("InvalidToken")
    ELSE IF tok.claims.exp < now THEN Raise("InvalidToken")
    ELSE Return(tok.claims, 0)

\* payload = token_to_payload(token); if payload.get("type") != expected: raise
resolve(tok, expected_type, now) ==
    LET decoded == token_to_payload(tok, now)
    IN  IF decoded.error # "" THEN decoded
        ELSE IF decoded.value[1].type # expected_type
             THEN Raise("WrongTokenType")
             ELSE decoded

\* uow.<repository>.get(key): the entity, or a miss
repository_get(rows, key) ==
    IF key # <<>> /\ key[1] \in rows
    THEN Return(key[1], 1)
    ELSE [Raise("PrincipalNotFound") EXCEPT !.lookups = 1]

\* payload.get(field): <<>> is None
payload_get(payload, field) ==
    IF field \in DOMAIN payload THEN <<payload[field]>> ELSE <<>>

\* user_from_token(token, uow)
user_from_token(tok, store, now) ==
    LET resolved == resolve(tok, "user", now)
    IN  IF resolved.error # "" THEN resolved
        ELSE repository_get(store.users, payload_get(resolved.value[1], "user"))

\* service_from_token(token, uow)
service_from_token(tok, store, now) ==
    LET resolved == resolve(tok, "service", now)
    IN  IF resolved.error # "" THEN resolved
        ELSE IF payload_get(resolved.value[1], "service") = <<>>
             THEN Raise("NoSubject")
             ELSE repository_get(store.services,
                                 payload_get(resolved.value[1], "service"))

\* variant: the type of the token is not compared
deployment_from_token_untyped(tok, store, now) ==
    LET decoded == token_to_payload(tok, now)
    IN  IF decoded.error # "" THEN decoded
        ELSE IF payload_get(decoded.value[1], "deployment") = <<>>
             THEN Raise("NoSubject")
             ELSE repository_get(store.deployments,
                                 payload_get(decoded.value[1], "deployment"))

\* variant: the deployment is built from the claims, not looked up
deployment_from_token_unchecked(tok, store, now) ==
    LET resolved == resolve(tok, "deployment", now)
    IN  IF resolved.error # "" THEN resolved
        ELSE IF payload_get(resolved.value[1], "deployment") = <<>>
             THEN Raise("NoSubject")
             ELSE Return(resolved.value[1].deployment, 0)

\* deployment_from_token(token, uow)
deployment_from_token(tok, store, now) ==
    LET resolved == resolve(tok, "deployment", now)
    IN  IF resolved.error # "" THEN resolved
        ELSE IF payload_get(resolved.value[1], "deployment") = <<>>
             THEN Raise("NoSubject")
             ELSE repository_get(store.deployments,
                                 payload_get(resolved.value[1], "deployment"))

\* the resolver each endpoint depends on
from_token(principal, tok, store, now) ==
    CASE principal = "user" -> user_from_token(tok, store, now)
      [] principal = "service" -> service_from_token(tok, store, now)
      [] principal = "deployment" -> deployment_from_token(tok, store, now)

\* what the endpoint persists once its principal is resolved:
\* get_deployments reads, start_deployment adds a deployment,
\* finish_deployment stamps the deployment of the token
endpoint_effect(principal, entity, store) ==
    CASE principal = "user" -> store
      [] principal = "service" ->
           [store EXCEPT !.deployments = @ \cup {store.next_id},
                         !.next_id = @ + 1]
      [] principal = "deployment" ->
           [store EXCEPT !.finished = @ \cup {entity}]

NoAuth ==
    [principal |-> "none", outcome |-> "none", status |-> 0, lookups |-> 0,
     value |-> <<>>, claims |-> <<>>]

\* the entity the token names, by repository
Subject(tok) ==
    IF tok.claims.type \in PrincipalTypes
    THEN payload_get(tok.claims, tok.claims.type) ELSE <<>>
Stored(store, type) ==
    CASE type = "user" -> store.users
      [] type = "service" -> store.services
      [] type = "deployment" -> store.deployments
      [] OTHER -> {}

\* the clock advances
Tick ==
    /\ clock < MaxTime
    /\ clock' = clock + 1
    /\ auth' = NoAuth
    /\ UNCHANGED <<token, grant, uow, revoked>>
    /\ UNCHANGED stepVars
    /\ UNCHANGED <<taskVars, restVars>>

\* a client obtains a token made by create_access_token
IssueToken ==
    \E payload \in Payloads, expires_delta \in Deltas :
        /\ token' = create_access_token(payload, expires_delta, clock)
        /\ grant' = [at |-> clock, expires_delta |-> expires_delta,
                     payload |-> payload, issued |-> TRUE]
        /\ revoked' = FALSE
        /\ auth' = NoAuth
        /\ UNCHANGED <<clock, uow>>
        /\ UNCHANGED stepVars
        /\ UNCHANGED <<taskVars, restVars>>

\* a client presents claims signed with another key
ForgeToken ==
    \E payload \in Payloads :
        /\ token' = jwt_encode([exp |-> MaxTime] @@ payload, "other_key")
        /\ grant' = [at |-> clock, expires_delta |-> <<>>,
                     payload |-> payload, issued |-> FALSE]
        /\ revoked' = FALSE
        /\ auth' = NoAuth
        /\ UNCHANGED <<clock, uow>>
        /\ UNCHANGED stepVars
        /\ UNCHANGED <<taskVars, restVars>>

\* uow.users.add / uow.services.add: an entity is stored under its name
AddEntity ==
    /\ \/ \E n \in UserNames \ uow.users :
            uow' = [uow EXCEPT !.users = @ \cup {n}]
       \/ \E n \in ServiceNames \ uow.services :
            uow' = [uow EXCEPT !.services = @ \cup {n}]
    /\ auth' = NoAuth
    /\ UNCHANGED <<clock, token, grant, revoked>>
    /\ UNCHANGED stepVars
    /\ UNCHANGED <<taskVars, restVars>>

\* a user, service or deployment is deleted from storage
DeleteEntity ==
    \E type \in PrincipalTypes : \E e \in Stored(uow, type) :
        /\ uow' = CASE type = "user" -> [uow EXCEPT !.users = @ \ {e}]
                    [] type = "service" -> [uow EXCEPT !.services = @ \ {e}]
                    [] type = "deployment" ->
                         [uow EXCEPT !.deployments = @ \ {e},
                                     !.finished = @ \ {e}]
        /\ revoked' = (revoked \/ (token.claims.type = type
                                   /\ Subject(token) = <<e>>))
        /\ auth' = NoAuth
        /\ UNCHANGED <<clock, token, grant>>
        /\ UNCHANGED stepVars
        /\ UNCHANGED <<taskVars, restVars>>

\* one request to an endpoint that depends on the given principal
Request ==
    \E principal \in PrincipalTypes :
        LET res == from_token(principal, token, uow, clock) IN
        /\ (principal = "service" /\ res.error = "")
               => uow.next_id <= MaxDeployments
        /\ auth' = [principal |-> principal,
                    outcome |-> IF res.error = "" THEN "ok" ELSE res.error,
                    status |-> IF res.error = "" THEN 200 ELSE 401,
                    lookups |-> res.lookups,
                    value |-> res.value,
                    claims |-> resolve(token, principal, clock).value]
        /\ uow' = IF res.error = ""
                  THEN endpoint_effect(principal, res.value[1], uow)
                  ELSE uow
        /\ UNCHANGED <<clock, token, grant, revoked>>
        /\ UNCHANGED stepVars
        /\ UNCHANGED <<taskVars, restVars>>

AuthParked ==
    /\ token = jwt_encode([exp |-> 0, type |-> "user", user |-> "u"], "other_key")
    /\ grant = [at |-> 0, expires_delta |-> <<>>,
                payload |-> [type |-> "user", user |-> "u"], issued |-> FALSE]
    /\ uow = [users |-> {}, services |-> {}, deployments |-> {},
              finished |-> {}, next_id |-> 1]
    /\ auth = NoAuth
    /\ revoked = FALSE

AuthIdle == clock = 0 /\ AuthParked

StepsIdle ==
    /\ deployment = [id |-> DeploymentId, started |-> NULL, finished |-> NULL]
    /\ steps = <<>>
    /\ last = NoCall
    /\ hb = [n \in StepNames |-> 0]
    /\ overlap = FALSE

InitAuth == AuthIdle /\ StepsIdle /\ TaskIdle /\ RestIdle

NextAuth ==
    \/ Tick
    \/ IssueToken
    \/ ForgeToken
    \/ AddEntity
    \/ DeleteEntity
    \/ Request

SpecAuth == InitAuth /\ [][NextAuth]_vars

InitTask ==
    /\ stdout \in UNION {[1..n -> Lines] : n \in 0..MaxLines}
    /\ pc = "readline"
    /\ message = <<>>
    /\ attempt = 0
    /\ r = "unbound"
    /\ posts = 0
    /\ fails = 0
    /\ delivered = <<>>
    /\ emitted = stdout
    /\ parsed = 0
    /\ settled = 0
    /\ StepsIdle
    /\ AuthIdle
    /\ RestIdle

NextTask ==
    \/ readline
    \/ post_response
    \/ post_connect_error
    \/ sleep
    \/ print_response

SpecTask == InitTask /\ [][NextTask]_vars

\* the task is one coroutine that nothing else holds up: every await of
\* run_deploy returns (a line or end of file, a response or ConnectError,
\* the end of the sleep), so a step that stays possible is taken
SpecTaskLive == SpecTask /\ WF_vars(NextTask)

\* ---------------------------------------------------------- sync_services
MaxServices == 2     \* longest list of services handed to sync_services

SyncNames == {"a", "b", "c"}
SyncData == {[x |-> 1], [x |-> 2]}

\* Service.__init__
Service(id, name, data) == [id |-> id, name |-> name, data |-> data]

\* {service.name: service for service in services}[name]: the last service
\* of that name (<<>> when the name is not a key)
name_lookup(services, name) ==
    LET hits == SelectSeq(services, LAMBDA s : s.name = name)
    IN  IF Len(hits) > 0 THEN <<hits[Len(hits)]>> ELSE <<>>

\* variant: the source service is appended, so the id of the target is lost
RECURSIVE updated_services_from_source(_, _)
updated_services_from_source(source, target) ==
    IF source = <<>> THEN <<>>
    ELSE LET service == Head(source)
             found == name_lookup(target, service.name)
             rest == updated_services_from_source(Tail(source), target)
         IN  IF found # <<>>
             THEN IF found[1].data # service.data
                  THEN <<service>> \o rest
                  ELSE rest
             ELSE <<service>> \o rest

\* variant: the data of the target service is not overwritten
RECURSIVE updated_services_unwritten(_, _)
updated_services_unwritten(source, target) ==
    IF source = <<>> THEN <<>>
    ELSE LET service == Head(source)
             found == name_lookup(target, service.name)
             rest == updated_services_unwritten(Tail(source), target)
         IN  IF found # <<>>
             THEN IF found[1].data # service.data
                  THEN <<found[1]>> \o rest
                  ELSE rest
             ELSE <<service>> \o rest

\* the first loop of sync_services: updated_services
RECURSIVE updated_services(_, _)
updated_services(source, target) ==
    IF source = <<>> THEN <<>>
    ELSE LET service == Head(source)
             found == name_lookup(target, service.name)
             rest == updated_services(Tail(source), target)
         IN  IF found # <<>>
             THEN IF found[1].data # service.data
                  THEN <<[found[1] EXCEPT !.data = service.data]>> \o rest
                  ELSE rest
             ELSE <<service>> \o rest

\* the second loop of sync_services: deleted_services
deleted_services(source, target) ==
    SelectSeq(target, LAMBDA s : name_lookup(source, s.name) = <<>>)

\* target_services after the call: "target_service.data = service.data"
\* writes into the service of the caller's list
target_after(source, target) ==
    [i \in 1..Len(target) |->
        LET found == name_lookup(source, target[i].name)
        IN  IF found # <<>> /\ name_lookup(target, target[i].name) = <<target[i]>>
            THEN [target[i] EXCEPT !.data = found[1].data]
            ELSE target[i]]

\* sync_services(source_services, target_services)
sync_services(source, target) ==
    [updated |-> updated_services(source, target),
     deleted |-> deleted_services(source, target),
     target |-> target_after(source, target)]

\* lists of services with unique names: from the filesystem (no id) ...
SourceLists ==
    UNION {{l \in [1..n -> {Service(NULL, name, data) :
                              name \in SyncNames, data \in SyncData}] :
              \A i, j \in 1..n : i # j => l[i].name # l[j].name}
           : n \in 0..MaxServices}

\* ... and from the database, where the id is the primary key
TargetLists ==
    {[i \in 1..Len(l) |-> [l[i] EXCEPT !.id = i]] : l \in SourceLists}

\* one call of sync_services
sync ==
    /\ synced = <<>>
    /\ synced' = <<sync_services(source_services, target_services)>>
    /\ UNCHANGED <<source_services, target_services>>
    /\ UNCHANGED <<stepVars, authVars, taskVars, todoVars, busVars, callVars, detailVars, applyVars>>

\* the stored services after the result of a call is applied: the deleted
\* ones removed, the updated ones written under their id, the new ones
\* added under a fresh id
applied_services(target, result) ==
    LET kept == SelectSeq(target,
                  LAMBDA t : \A i \in 1..Len(result.deleted) :
                               result.deleted[i].id # t.id)
        written == [i \in 1..Len(kept) |->
                      IF \E j \in 1..Len(result.updated) :
                           result.updated[j].id = kept[i].id
                      THEN result.updated[
                             CHOOSE j \in 1..Len(result.updated) :
                               result.updated[j].id = kept[i].id]
                      ELSE kept[i]]
        fresh == SelectSeq(result.updated, LAMBDA u : u.id = NULL)
    IN  written \o [k \in 1..Len(fresh) |->
                      [fresh[k] EXCEPT !.id = Len(target) + k]]

\* the caller stores what sync_services returned
apply_synced ==
    /\ synced # <<>>
    /\ ~sync_applied
    /\ target_services' = applied_services(synced[1].target, synced[1])
    /\ synced' = <<>>
    /\ sync_applied' = TRUE
    /\ UNCHANGED source_services
    /\ UNCHANGED <<stepVars, authVars, taskVars, todoVars, busVars, callVars, detailVars>>

InitSync ==
    /\ source_services \in SourceLists
    /\ target_services \in TargetLists
    /\ synced = <<>>
    /\ StepsIdle
    /\ AuthIdle
    /\ TaskIdle
    /\ TodoIdle
    /\ BusIdle
    /\ CallsIdle
    /\ DetailsIdle
    /\ ApplyIdle

NextSync == sync \/ apply_synced

SpecSync == InitSync /\ [][NextSync]_vars

\* ---------------------------------------------------------- steps to do
MaxConfigSteps == 2  \* longest list of configured or recorded steps

\* what a caller sees of a step: its name and its state
StepDescriptor(name, state) == [name |-> name, state |-> state]

\* model.Step(name="Unknown step") / StepBase(name="Unknown step")
Placeholder == StepDescriptor("Unknown step", "pending")

\* service.data.get("steps", []): the names of the configured steps
ConfigSteps ==
    UNION {[1..n -> StepNames] : n \in 0..MaxConfigSteps}

\* the rows recorded for a deployment that succeeded
RecordedSteps ==
    UNION {[1..n -> {StepDescriptor(name, state) :
                       name \in StepNames, state \in {"pending", "success"}}]
           : n \in 0..MaxConfigSteps}

\* a service: its id, its configuration and, if it has one, the rows of its
\* most recent successful deployment (<<>> when it has none)
ServicesToDo ==
    {s \in [id : {NULL, DeploymentId}, config : ConfigSteps,
            recorded : {<<>>} \cup {<<rows>> : rows \in RecordedSteps}] :
       s.id = NULL => s.recorded = <<>>}

\* uow.deployments.get_last_successful_deployment_id(service.id)
get_last_successful_deployment_id(s) ==
    IF s.recorded # <<>> THEN DeploymentId ELSE NULL

\* uow.steps.get_steps_from_deployment(last_successful_deployment_id)
get_steps_from_deployment(s) == s.recorded[1]

\* [model.Step(**step) for step in service.data.get("steps", [])]
steps_from_config(s) ==
    [i \in 1..Len(s.config) |-> StepDescriptor(s.config[i], "pending")]

\* views.get_steps_from_last_deployment
get_steps_from_last_deployment(s) ==
    IF s.id = NULL THEN <<>>
    ELSE IF get_last_successful_deployment_id(s) # NULL
         THEN get_steps_from_deployment(s)
         ELSE <<>>

\* views.get_steps_to_do_from_service(service, uow)
get_steps_to_do_from_service(s, with_uow) ==
    LET from_db == IF with_uow THEN get_steps_from_last_deployment(s) ELSE <<>>
        from_config == steps_from_config(s)
    IN  IF Len(from_db) > 0 THEN from_db
        ELSE IF Len(from_config) = 0 THEN <<Placeholder>>
        ELSE from_config

\* ServicePydantic.get_steps
get_steps(s) ==
    LET listed ==
          IF get_last_successful_deployment_id(s) # NULL
          THEN [i \in 1..Len(get_steps_from_deployment(s)) |->
                  StepDescriptor(get_steps_from_deployment(s)[i].name, "pending")]
          ELSE steps_from_config(s)
    IN  IF Len(listed) = 0 THEN <<Placeholder>> ELSE listed

\* a caller asks views.get_steps_to_do_from_service for the steps
steps_to_do_view ==
    /\ todo = <<>>
    /\ \E with_uow \in BOOLEAN :
         todo' = [by |-> "views", uow |-> with_uow,
                  steps |-> get_steps_to_do_from_service(todo_service, with_uow)]
    /\ UNCHANGED todo_service
    /\ UNCHANGED <<stepVars, authVars, taskVars, syncVars, busVars, callVars, detailVars, applyVars>>

\* a caller asks ServicePydantic.get_steps for the steps
steps_to_do_model ==
    /\ todo = <<>>
    /\ todo_service.id # NULL
    /\ todo' = [by |-> "model", uow |-> TRUE, steps |-> get_steps(todo_service)]
    /\ UNCHANGED todo_service
    /\ UNCHANGED <<stepVars, authVars, taskVars, syncVars, busVars, callVars, detailVars, applyVars>>

InitTodo ==
    /\ todo_service \in ServicesToDo
    /\ todo = <<>>
    /\ SyncIdle
    /\ TaskIdle
    /\ AuthIdle
    /\ StepsIdle
    /\ BusIdle
    /\ CallsIdle
    /\ DetailsIdle
    /\ ApplyIdle

NextTodo == steps_to_do_view \/ steps_to_do_model

SpecTodo == InitTodo /\ [][NextTodo]_vars

\* ------------------------------------------------------------- event bus
MaxEvents == 2       \* delete() calls made inside one unit of work

Uows == {"u1", "u2"}             \* two requests, each with its own unit of work
Handlers == <<"h1", "h2">>       \* the handlers registered for ServiceDeleted
ServiceIds == 1..MaxServices     \* the persisted services

\* events.ServiceDeleted(id=...)
ServiceDeleted(id) == [kind |-> "ServiceDeleted", id |-> id]

\* Service.delete(): "events" is an attribute of the class Service, so the
\* list appended to is the one list every Service instance reads
delete(id, events) ==
    IF id # NULL THEN Append(events, ServiceDeleted(id)) ELSE events

\* service.events for the Service instance that the unit of work u loaded
\* under id: no instance has an attribute of its own, the lookup ends at
\* the attribute of the class
events_of(u, id, class_events) == class_events

\* the bus drains the buffer of every entity the unit of work loaded: each
\* of them holds the list of the class
collect_new_events(seen, events) ==
    IF seen = {} THEN <<>> ELSE events

\* what is left in the list of the class after the drain
after_drain(seen, events) ==
    IF seen = {} THEN events ELSE <<>>

\* each event goes to every registered handler, in the order produced; a
\* handler that raises is reported and the loop goes on
dispatch(evs) ==
    [k \in 1..(Len(evs) * Len(Handlers)) |->
        [event |-> evs[((k - 1) \div Len(Handlers)) + 1],
         handler |-> Handlers[((k - 1) % Len(Handlers)) + 1]]]

NewUow == [status |-> "open", seen |-> {}, produced |-> <<>>,
           handled |-> <<>>, raised |-> {}]

\* uow.services.get(...) inside the unit of work u
bus_load(u) ==
    /\ bus[u].status = "open"
    /\ \E id \in ServiceIds \ bus[u].seen :
         bus' = [bus EXCEPT ![u].seen = @ \cup {id}]
    /\ UNCHANGED service_events
    /\ UNCHANGED <<stepVars, authVars, taskVars, syncVars, todoVars, callVars, detailVars, applyVars>>

\* service.delete() on a service loaded in the unit of work u
bus_delete(u) ==
    /\ bus[u].status = "open"
    /\ Len(bus[u].produced) < MaxEvents
    /\ \E id \in bus[u].seen :
         /\ service_events' = delete(id, service_events)
         /\ bus' = [bus EXCEPT ![u].produced = Append(@, ServiceDeleted(id))]
    /\ UNCHANGED <<stepVars, authVars, taskVars, syncVars, todoVars, callVars, detailVars, applyVars>>

\* uow.commit() succeeds, then the bus drains and dispatches
bus_commit(u) ==
    /\ bus[u].status = "open"
    /\ \E raising \in SUBSET {Handlers[i] : i \in 1..Len(Handlers)} :
         bus' = [bus EXCEPT
                   ![u].status = "committed",
                   ![u].handled =
                       dispatch(collect_new_events(bus[u].seen, service_events)),
                   ![u].raised = raising]
    /\ service_events' = after_drain(bus[u].seen, service_events)
    /\ UNCHANGED <<stepVars, authVars, taskVars, syncVars, todoVars, callVars, detailVars, applyVars>>

InitBus ==
    /\ service_events = <<>>
    /\ bus = [u \in Uows |-> NewUow]
    /\ SyncIdle
    /\ TodoIdle
    /\ TaskIdle
    /\ AuthIdle
    /\ StepsIdle
    /\ CallsIdle
    /\ DetailsIdle
    /\ ApplyIdle

NextBus == \E u \in Uows : bus_load(u) \/ bus_delete(u) \/ bus_commit(u)

SpecBus == InitBus /\ [][NextBus]_vars

\* ------------------------------------------------ reconciliation runs
\* a step a deployment is created with (get_steps_to_do: pending, by name),
\* one of which may already have been started and set running
InitialRow(i, name, state) ==
    [id |-> i, name |-> name,
     started |-> IF state = "running" THEN Now ELSE NULL, finished |-> NULL,
     state |-> state, message |-> "", deployment_id |-> DeploymentId]

InitialTables ==
    UNION {
      { [i \in 1..n |-> InitialRow(i, names[i],
                                    IF i = run THEN "running" ELSE "pending")] :
          names \in [1..n -> StepNames], run \in 0..n }
      : n \in 0..MaxSteps }

\* Deployment.__init__: started and finished are independent optional fields
Deployments ==
    {[id |-> DeploymentId, started |-> s, finished |-> f] :
        s \in Timestamps, f \in Timestamps}

Init ==
    /\ deployment \in Deployments
    /\ steps \in InitialTables
    /\ last = NoCall
    /\ hb = [n \in StepNames |-> 0]
    /\ overlap = FALSE
    /\ AuthIdle
    /\ TaskIdle
    /\ RestIdle

Next == \E step \in IncomingSteps : process_step(step)

Spec == Init /\ [][Next]_vars

\* ------------------------------------- process_step, one await at a time
MaxRows == 2         \* rows of the deployment before the calls begin

Callers == {"c1", "c2"}    \* two requests that call process_step

NewCall == [pc |-> "new", step |-> Step("A", "pending", "", NULL),
            loaded |-> <<>>]

\* the step tables the calls may find
StartTables == {t \in InitialTables : Len(t) <= MaxRows}

\* steps = await repository.get_steps_by_deployment_id(self.id), past the
\* two guards
call_load(c) ==
    /\ calls[c].pc = "new"
    /\ \E step \in IncomingSteps :
         calls' = [calls EXCEPT ![c] =
                     [pc |-> "loaded", step |-> step,
                      loaded |-> get_steps_by_deployment_id(db_steps, DeploymentId)]]
    /\ UNCHANGED <<db_steps, db_start>>
    /\ UNCHANGED <<stepVars, authVars, taskVars, syncVars, todoVars, busVars, detailVars, applyVars>>

\* await repository.update_step(next_pending_step)
call_promote(c) ==
    /\ calls[c].pc = "loaded"
    /\ next_pending_step(calls[c].loaded, calls[c].step) # <<>>
    /\ db_steps' = update_step(db_steps,
                     next_pending_step(calls[c].loaded, calls[c].step)[1])
    /\ calls' = [calls EXCEPT ![c].pc = "promoted"]
    /\ UNCHANGED db_start
    /\ UNCHANGED <<stepVars, authVars, taskVars, syncVars, todoVars, busVars, detailVars, applyVars>>

\* return await repository.add_step(step) / repository.update_step(known_step)
call_write(c) ==
    /\ \/ calls[c].pc = "promoted"
       \/ /\ calls[c].pc = "loaded"
          /\ next_pending_step(calls[c].loaded, calls[c].step) = <<>>
    /\ LET ks == known_step(calls[c].loaded, calls[c].step)
       IN  db_steps' =
             IF ks = <<>>
             THEN add_step(db_steps, new_step(calls[c].step, DeploymentId))
             ELSE update_step(db_steps, updated_known_step(ks[1], calls[c].step))
    /\ calls' = [calls EXCEPT ![c].pc = "done"]
    /\ UNCHANGED db_start
    /\ UNCHANGED <<stepVars, authVars, taskVars, syncVars, todoVars, busVars, detailVars, applyVars>>

\* the call ends at an await: the task is cancelled or the write raises
call_fail(c) ==
    /\ calls[c].pc \in {"loaded", "promoted"}
    /\ calls' = [calls EXCEPT ![c].pc = "failed"]
    /\ UNCHANGED <<db_steps, db_start>>
    /\ UNCHANGED <<stepVars, authVars, taskVars, syncVars, todoVars, busVars, detailVars, applyVars>>

InitCalls ==
    /\ db_steps \in StartTables
    /\ db_start = db_steps
    /\ calls = [c \in Callers |-> NewCall]
    /\ SyncIdle
    /\ TodoIdle
    /\ BusIdle
    /\ TaskIdle
    /\ AuthIdle
    /\ StepsIdle
    /\ DetailsIdle
    /\ ApplyIdle

NextCalls ==
    \E c \in Callers :
       call_load(c) \/ call_promote(c) \/ call_write(c) \/ call_fail(c)

SpecCalls == InitCalls /\ [][NextCalls]_vars

\* -------------------------------------------------- deployment lifecycle
\* time passes between two requests
life_tick ==
    /\ clock < MaxTime
    /\ clock' = clock + 1
    /\ UNCHANGED <<token, grant, uow, auth, revoked>>
    /\ UNCHANGED stepVars
    /\ UNCHANGED <<taskVars, restVars>>

\* start_deployment: the deployment is created with started = now
start_deployment ==
    /\ deployment.started = NULL
    /\ deployment' = [deployment EXCEPT !.started = clock]
    /\ UNCHANGED <<steps, last, hb, overlap>>
    /\ UNCHANGED authVars
    /\ UNCHANGED <<taskVars, restVars>>

\* finish_deployment: sets finished = now on the deployment the token names;
\* the token exists from start_deployment on
finish_deployment ==
    /\ deployment.started # NULL
    /\ deployment' = [deployment EXCEPT !.finished = clock]
    /\ UNCHANGED <<steps, last, hb, overlap>>
    /\ UNCHANGED authVars
    /\ UNCHANGED <<taskVars, restVars>>

\* Deployment.__init__: started and finished default to None
InitLife ==
    /\ StepsIdle
    /\ clock = Now
    /\ AuthParked
    /\ TaskIdle
    /\ RestIdle

NextLife ==
    \/ life_tick
    \/ start_deployment
    \/ finish_deployment
    \/ \E step \in IncomingSteps : process_step(step)

SpecLife == InitLife /\ [][NextLife]_vars

\* ----------------------------------------------------- deployment details
OwnerNames == {"s", "t"}     \* the service of the token and "another service"

\* model.Deployment(service_id=..., ...) as stored: its id and its owner
StoredDeployment(id, service_id) == [id |-> id, service_id |-> service_id]

\* what is persisted: services, and deployments with unique ids
Catalogs ==
    {[services |-> names,
      deployments |-> {StoredDeployment(id, owner[id]) : id \in DOMAIN owner}] :
        names \in SUBSET OwnerNames,
        owner \in UNION {[ids -> OwnerNames] : ids \in SUBSET DeploymentIds}}

\* uow.deployments.get(deployment_id): <<>> on a miss
deployments_get(rows, id) ==
    IF \E d \in rows : d.id = id
    THEN <<CHOOSE d \in rows : d.id = id>>
    ELSE <<>>

\* variant: the owner of the deployment is not compared
get_deployment_details_any(resolved, id, rows) ==
    IF resolved.error # "" THEN [error |-> resolved.error, value |-> <<>>]
    ELSE IF deployments_get(rows, id) = <<>>
         THEN [error |-> "NotFound", value |-> <<>>]
         ELSE [error |-> "", value |-> deployments_get(rows, id)]

\* get_deployment_details(deployment_id) for the service the token resolved
\* to: 404 "Deployment not found", 403 "Wrong service token", else the row
get_deployment_details(resolved, id, rows) ==
    IF resolved.error # "" THEN [error |-> resolved.error, value |-> <<>>]
    ELSE IF deployments_get(rows, id) = <<>>
         THEN [error |-> "NotFound", value |-> <<>>]
    ELSE IF deployments_get(rows, id)[1].service_id # resolved.value[1]
         THEN [error |-> "WrongService", value |-> <<>>]
         ELSE [error |-> "", value |-> deployments_get(rows, id)]

\* a client holding a token of the service "caller" asks for deployment id
details_request ==
    /\ answer = <<>>
    /\ \E caller \in OwnerNames, id \in 1..(MaxDeployments + 1) :
         LET tok == create_access_token(
                      [type |-> "service", service |-> caller], <<>>, Now)
             resolved == service_from_token(tok, catalog, Now)
         IN  answer' = [caller |-> caller, id |-> id,
                        result |-> get_deployment_details(
                                     resolved, id, catalog.deployments)]
    /\ UNCHANGED catalog
    /\ UNCHANGED <<stepVars, authVars, taskVars, syncVars, todoVars, busVars, callVars, applyVars>>

InitDetails ==
    /\ catalog \in Catalogs
    /\ answer = <<>>
    /\ SyncIdle
    /\ TodoIdle
    /\ BusIdle
    /\ CallsIdle
    /\ TaskIdle
    /\ AuthIdle
    /\ StepsIdle
    /\ ApplyIdle

NextDetails == details_request

SpecDetails == InitDetails /\ [][NextDetails]_vars

\* ---------------------------------------------------------- later parts
\* ------------------------------------------------- claims on process_step
Active(dep) == dep.started # NULL /\ dep.finished = NULL
RowsIn(table, st) == {i \in 1..Len(table) : table[i].state = st}
RowsNamed(table, name, sts) ==
    {i \in 1..Len(table) : table[i].name = name /\ table[i].state \in sts}
Lowest(S) == CHOOSE i \in S : \A j \in S : i <= j
NumRunning(table) == Cardinality(RowsIn(table, "running"))

\* C1: on a started, unfinished deployment an event that names a running
\* step and has not failed gives that step the incoming state and message
\* and a finished stamp, sets the earliest pending step running and leaves
\* every other step as it was.
ThmC1 ==
    [][LET e == last'.step IN
       (/\ Active(deployment)
        /\ RowsNamed(steps, e.name, {"running"}) # {}
        /\ e.state # "failure")
       => /\ Len(steps') = Len(steps)
          /\ \E k \in RowsNamed(steps, e.name, {"running"}) :
               /\ steps'[k].state = e.state
               /\ steps'[k].message = e.message
               /\ steps'[k].finished # NULL
               /\ \A i \in 1..Len(steps) :
                    IF i = k THEN TRUE
                    ELSE IF RowsIn(steps, "pending") # {}
                            /\ i = Lowest(RowsIn(steps, "pending"))
                         THEN steps'[i] = [steps[i] EXCEPT !.state = "running"]
                         ELSE steps'[i] = steps[i]]_vars

\* C1 case: A closed with success, B promoted, a later step still pending
WitC1 ==
    /\ Len(steps) = 3
    /\ last.outcome = "updated" /\ last.matched = "running"
    /\ last.returned = 1 /\ last.promoted = 2
    /\ steps[1].state = "success" /\ steps[1].finished # NULL
    /\ steps[1].message = "m"
    /\ steps[2].state = "running"
    /\ steps[3].state = "pending"

\* C2: an event whose state is failure promotes nothing: the matched or
\* newly created step ends in failure, every other step is as it was, and
\* a call rejected by a guard changes no step.
ThmC2 ==
    [][LET e == last'.step IN
       e.state = "failure"
       => IF Active(deployment)
          THEN \E k \in 1..Len(steps') :
                 /\ steps'[k].state = "failure"
                 /\ steps'[k].name = e.name
                 /\ Len(steps') = IF k > Len(steps) THEN Len(steps) + 1
                                  ELSE Len(steps)
                 /\ \A i \in 1..Len(steps) : i # k => steps'[i] = steps[i]
          ELSE steps' = steps]_vars

\* C2 case: a running step failed while a pending step remained
WitC2 ==
    /\ last.outcome = "updated" /\ last.matched = "running"
    /\ last.step.state = "failure"
    /\ steps[last.returned].state = "failure"
    /\ RowsIn(steps, "pending") # {}
    /\ last.promoted = 0

\* C3: on a started, unfinished deployment an event whose name matches no
\* running and no pending step adds exactly one row with the incoming name
\* and state, a finished stamp and the deployment's id, and changes no
\* existing row.
ThmC3 ==
    [][LET e == last'.step IN
       (/\ Active(deployment)
        /\ RowsNamed(steps, e.name, {"running", "pending"}) = {})
       => /\ Len(steps') = Len(steps) + 1
          /\ steps'[Len(steps')].name = e.name
          /\ steps'[Len(steps')].state = e.state
          /\ steps'[Len(steps')].finished # NULL
          /\ steps'[Len(steps')].deployment_id = deployment.id
          /\ \A i \in 1..Len(steps) : steps'[i] = steps[i]]_vars

\* C3 case: the first step of a deployment without steps, reported running
WitC3 ==
    /\ Len(steps) = 1
    /\ last.outcome = "created" /\ last.returned = 1
    /\ last.step.state = "running"
    /\ steps[1].state = "running" /\ steps[1].finished # NULL
    /\ steps[1].deployment_id = deployment.id

\* C4 as stated: with finished set the call always fails with
\* DeploymentAlreadyFinished, whatever started is.
CexC4 ==
    [][deployment.finished # NULL
       => last'.outcome = "DeploymentAlreadyFinished"]_vars

\* C4: with finished set the call always fails and changes no step: with
\* DeploymentAlreadyFinished when started is set, with DeploymentNotStarted
\* when started is null, because the started guard is tested first.
ThmC4 ==
    [][deployment.finished # NULL
       => /\ steps' = steps
          /\ last'.outcome = IF deployment.started # NULL
                             THEN "DeploymentAlreadyFinished"
                             ELSE "DeploymentNotStarted"]_vars

\* C4 case: a call rejected because the deployment has finished
WitC4 ==
    /\ deployment.finished # NULL /\ deployment.started # NULL
    /\ last.outcome = "DeploymentAlreadyFinished"

\* C5 as stated: a terminal event for X that follows a running event for X
\* adds no row and is applied to the row the running event was applied to.
CexC5 ==
    [][LET e == last'.step IN
       (Active(deployment) /\ e.state \in Terminal /\ hb[e.name] # 0)
       => /\ Len(steps') = Len(steps)
          /\ steps'[hb[e.name]].state = e.state]_vars

\* C5: a terminal event for X that follows a running event for X adds no
\* row and is applied to a running row named X, which is the row of the
\* running event whenever no other unfinished step is named X; and whenever
\* a running step carries the incoming name, a running one is updated and
\* the pending ones of that name are at most promoted.
ThmC5 ==
    [][LET e == last'.step IN
       /\ (Active(deployment) /\ e.state \in Terminal /\ hb[e.name] # 0)
          => /\ Len(steps') = Len(steps)
             /\ \E k \in RowsNamed(steps, e.name, {"running"}) :
                  steps'[k].state = e.state
             /\ Cardinality(RowsNamed(steps, e.name, {"running", "pending"})) = 1
                  => steps'[hb[e.name]].state = e.state
       /\ (Active(deployment) /\ RowsNamed(steps, e.name, {"running"}) # {})
          => /\ Len(steps') = Len(steps)
             /\ \E k \in RowsNamed(steps, e.name, {"running"}) :
                  /\ steps'[k].state = e.state
                  /\ steps'[k].finished # NULL
             /\ \A i \in RowsNamed(steps, e.name, {"pending"}) :
                  steps'[i] \in {steps[i], [steps[i] EXCEPT !.state = "running"]}
      ]_vars

\* C5 case: the terminal result updated the row of the running heartbeat
\* while a pending step of the same name existed
WitC5 ==
    /\ last.outcome = "updated" /\ last.step.state = "success"
    /\ last.heartbeat # 0 /\ last.returned = last.heartbeat
    /\ \E i \in 1..Len(steps) :
         /\ i # last.returned
         /\ steps[i].name = last.step.name
         /\ steps[i].finished = NULL

\* C6 as stated: at most one step is running after any sequence of events.
CexC6 == NumRunning(steps) <= 1

\* C6: at most one step is running as long as no event reporting "running"
\* has been processed while a step was already running.
ThmC6 == ~overlap => NumRunning(steps) <= 1

\* C6 case: the running step closed with success and the next one runs
WitC6 ==
    /\ ~overlap
    /\ last.outcome = "updated" /\ last.matched = "running"
    /\ last.step.state = "success" /\ last.promoted # 0
    /\ NumRunning(steps) = 1

\* --------------------------------------------------- claims on the tokens
SameClaims(issued, resolved) ==
    /\ resolved # <<>>
    /\ \A k \in DOMAIN issued :
         k \in DOMAIN resolved[1] /\ resolved[1][k] = issued[k]

\* C7 as stated: a token issued at time t with a ttl (zero included)
\* resolves with its own type to the issued claims at every time up to
\* t + ttl and fails with InvalidToken at every later time.
CexC7 ==
    (/\ auth.outcome # "none"
     /\ grant.issued /\ grant.expires_delta # <<>>
     /\ payload_get(grant.payload, grant.payload.type) # <<>>
     /\ auth.principal = grant.payload.type)
    => IF clock <= grant.at + grant.expires_delta[1]
       THEN /\ auth.outcome \notin {"InvalidToken", "WrongTokenType"}
            /\ SameClaims(grant.payload, auth.claims)
       ELSE auth.outcome = "InvalidToken"

\* C8: a validly signed, unexpired token of one principal type presented
\* to the resolver of another type is rejected with WrongTokenType without
\* any repository lookup: no entity is returned, the request is an
\* authorization failure and storage is unchanged.
ThmC8 ==
    [][(/\ auth'.outcome # "none"
        /\ token.key = SecretKey
        /\ token.claims.exp >= clock
        /\ token.claims.type \in PrincipalTypes
        /\ auth'.principal # token.claims.type)
       => /\ auth'.outcome = "WrongTokenType"
          /\ auth'.lookups = 0
          /\ auth'.value = <<>>
          /\ auth'.status = 401
          /\ uow' = uow]_vars

\* C8 case: the token of a stored service on finish_deployment
WitC8 ==
    /\ auth.outcome = "WrongTokenType" /\ auth.principal = "deployment"
    /\ token.key = SecretKey /\ token.claims.exp >= clock
    /\ token.claims.type = "service"
    /\ Subject(token) # <<>> /\ Subject(token)[1] \in uow.services

\* C9 as stated: from the moment the entity a token names is deleted, no
\* request made with that token succeeds or changes storage.
CexC9 ==
    [][(revoked /\ auth'.outcome # "none")
       => (auth'.outcome # "ok" /\ uow' = uow)]_vars

\* C9: a request whose token names an entity that is not in storage is an
\* authorization failure and changes nothing, with PrincipalNotFound when
\* the token is validly signed, unexpired and of the resolver's type; after
\* a deletion this lasts as long as no user or service is stored again
\* under the name, and for good for a deployment token, ids not being
\* handed out twice.
ThmC9 ==
    [][auth'.outcome # "none" =>
       /\ (/\ token.claims.type = auth'.principal
           /\ (Subject(token) = <<>>
               \/ Subject(token)[1] \notin Stored(uow, auth'.principal)))
          => /\ auth'.outcome # "ok"
             /\ auth'.status = 401
             /\ auth'.value = <<>>
             /\ uow' = uow
             /\ (/\ token.key = SecretKey
                 /\ token.claims.exp >= clock
                 /\ Subject(token) # <<>>)
                => auth'.outcome = "PrincipalNotFound"
       /\ (revoked /\ token.claims.type = "deployment")
          => (auth'.outcome # "ok" /\ uow' = uow)]_vars

\* C9 case: the deployment of a valid token was deleted after the token
\* was issued, and the next request with it was refused
WitC9 ==
    /\ auth.outcome = "PrincipalNotFound" /\ auth.status = 401
    /\ auth.principal = "deployment"
    /\ revoked /\ grant.issued
    /\ token.claims.exp >= clock

\* ----------------------------------------------------- claims on the task
\* C10 as stated: one event takes at most 3 POST attempts; 2 connection
\* failures and a success are 3 attempts and one delivery; 3 connection
\* failures are 3 attempts and no delivery, and no exception leaves the
\* loop of run_deploy, which goes on reading.
CexC10 ==
    /\ posts <= MaxAttempts
    /\ (pc = "print" /\ fails = 2)
          => (posts = 3 /\ delivered # <<>>
              /\ delivered[Len(delivered)] = message[1])
    /\ fails = 3 => (posts = 3 /\ r = "unbound" /\ pc # "crashed")

\* C11 as stated: a malformed line is dropped without a POST and does not
\* end the read loop, so once the task has stopped every parseable line
\* written after a malformed line it has read has been forwarded.
CexC11 ==
    pc \in {"done", "crashed"}
    => \A i \in 1..Len(emitted) :
         (/\ json_loads(emitted[i]) # <<>>
          /\ \E j \in 1..(i - 1) :
               /\ json_loads(emitted[j]) = <<>>
               /\ j <= Len(emitted) - Len(stdout))
         => i <= Len(emitted) - Len(stdout)

RECURSIVE IsSubseq(_, _)
IsSubseq(sub, seq) ==
    IF sub = <<>> THEN TRUE
    ELSE IF seq = <<>> THEN FALSE
    ELSE IF Head(sub) = Head(seq) THEN IsSubseq(Tail(sub), Tail(seq))
    ELSE IsSubseq(sub, Tail(seq))

\* the events of the lines read so far, in the order they were written
EventsRead ==
    LET read == SubSeq(emitted, 1, Len(emitted) - Len(stdout))
        good == SelectSeq(read, LAMBDA l : json_loads(l) # <<>>)
    IN  [i \in 1..Len(good) |-> json_loads(good[i])[1]]

\* C12: one event is in flight at a time: when the first POST of an event
\* is made every event parsed before it has been delivered or given up,
\* and the delivered events are a subsequence, in order, of the events
\* the script wrote.
ThmC12 ==
    [][/\ (posts = 0 /\ posts' = 1) => settled = parsed - 1
       /\ parsed' - settled' \in {0, 1}
       /\ IsSubseq(delivered', EventsRead')
       /\ Len(delivered') <= settled']_vars

\* C12 case: two different events were delivered, in the order written
WitC12 ==
    /\ Len(delivered) = 2 /\ settled = 2 /\ parsed = 2
    /\ delivered[1] # delivered[2]
    /\ pc = "print" /\ fails = 0

\* ------------------------------------------------- claims on sync_services
Elems(seq) == {seq[i] : i \in 1..Len(seq)}
NamesOf(seq) == {seq[i].name : i \in 1..Len(seq)}

\* C13: for lists with unique names, updated is exactly the source services
\* whose name the target lacks plus, for every name in both lists with
\* different data, the target service with its id and the source's data;
\* deleted is exactly the target services whose name the source lacks; a
\* service in both lists with equal data is in neither.
ThmC13 ==
    synced # <<>> =>
    LET src == Elems(source_services)
        tgt == Elems(target_services)
        added == {s \in src : s.name \notin NamesOf(target_services)}
        changed == {[id |-> t.id, name |-> t.name, data |-> s.data] :
                      <<s, t>> \in {p \in src \X tgt :
                                      /\ p[1].name = p[2].name
                                      /\ p[1].data # p[2].data}}
        gone == {t \in tgt : t.name \notin NamesOf(source_services)}
    IN  /\ Elems(synced[1].updated) = added \cup changed
        /\ Len(synced[1].updated) = Cardinality(added \cup changed)
        /\ Elems(synced[1].deleted) = gone
        /\ Len(synced[1].deleted) = Cardinality(gone)

\* C13 case: one service overwritten under its id, one added, one deleted
WitC13 ==
    /\ synced # <<>>
    /\ \E u \in Elems(synced[1].updated) :
         /\ u.id # NULL
         /\ \E t \in Elems(target_services) : t.id = u.id /\ t.data # u.data
    /\ \E u \in Elems(synced[1].updated) : u.id = NULL
    /\ Len(synced[1].deleted) = 1

\* ------------------------------------------------- claims on steps to do
\* what the description promises for a service
StepsToDoPromised(s) ==
    IF s.recorded # <<>> /\ Len(s.recorded[1]) > 0
    THEN [i \in 1..Len(s.recorded[1]) |->
            StepDescriptor(s.recorded[1][i].name, "pending")]
    ELSE IF Len(s.config) > 0
         THEN [i \in 1..Len(s.config) |-> StepDescriptor(s.config[i], "pending")]
         ELSE <<Placeholder>>

\* C14: get_steps_to_do returns the names of the steps recorded for the most
\* recent successful deployment, each in state pending; else the configured
\* steps in order; else exactly one placeholder step.
CexC14 ==
    (todo # <<>> /\ todo.uow) => todo.steps = StepsToDoPromised(todo_service)

\* ------------------------------------------------ claims on the event bus
\* C15: committing a transaction in which N events were buffered results in
\* exactly N invocations of every registered handler, in the order the
\* events were produced, also when other entities are loaded in the unit of
\* work and also when a handler raises.
CexC15 ==
    bus # <<>> =>
    \A u \in Uows :
       bus[u].status = "committed" => bus[u].handled = dispatch(bus[u].produced)

\* --------------------------------- claims on interrupted and racing calls
\* C16: if a process_step call fails or is interrupted between its
\* repository writes, the persisted steps are those before the call or those
\* after a complete call; a promotion without the update of the matched step
\* is never persisted.
CexC16 ==
    calls # <<>> =>
    \A c \in Callers :
       (/\ calls[c].pc = "failed"
        /\ \A d \in Callers \ {c} : calls[d].pc = "new")
       => db_steps \in {db_start,
                        reconciled(db_start, DeploymentId, calls[c].step)}

\* C20: if two process_step calls for the same deployment both load the
\* steps before either writes, the persisted steps in the end are those of
\* running the two calls one after the other in some order.
CexC20 ==
    calls # <<>> =>
    ((\A c \in Callers :
         /\ calls[c].pc = "done"
         /\ calls[c].loaded = get_steps_by_deployment_id(db_start, DeploymentId))
     => \E c, d \in Callers :
          /\ c # d
          /\ db_steps = reconciled(reconciled(db_start, DeploymentId, calls[c].step),
                                   DeploymentId, calls[d].step))

\* --------------------------------------------------- claims on lifecycle
\* C17: over any sequence of start_deployment, ingest_step and
\* finish_deployment calls, finished goes from null to a value at most once
\* (a second finish_deployment does not overwrite it), and is never set
\* while started is null or to a time earlier than started.
CexC17 ==
    [][/\ deployment.finished # NULL
          => deployment'.finished = deployment.finished
       /\ deployment'.finished # NULL
          => /\ deployment'.started # NULL
             /\ deployment'.finished >= deployment'.started]_vars

\* C19: a process_step call that fails with DeploymentNotStarted or with
\* DeploymentAlreadyFinished creates, updates and promotes no step; hence,
\* once a deployment is finished, its steps never change again, whatever
\* calls follow.
ThmC19 ==
    [][/\ (deployment.started = NULL /\ last' # last)
          => last'.outcome = "DeploymentNotStarted"
       /\ (deployment.started # NULL /\ deployment.finished # NULL
           /\ last' # last)
          => last'.outcome = "DeploymentAlreadyFinished"
       /\ last'.outcome \in {"DeploymentNotStarted", "DeploymentAlreadyFinished"}
          => steps' = steps
       /\ deployment.finished # NULL
          => (steps' = steps /\ deployment'.finished # NULL)]_vars

\* C19 case: steps were ingested, the deployment was finished, and a later
\* call was rejected
WitC19 ==
    /\ deployment.finished # NULL
    /\ last.outcome = "DeploymentAlreadyFinished"
    /\ \E i \in 1..Len(steps) : steps[i].state \in Terminal

\* ------------------------------------------ claims on deployment details
\* C18: with a valid token of service S, get_deployment_details returns the
\* deployment only when it exists and belongs to S, NotFound when no
\* deployment has the id, and WrongService when the deployment belongs to
\* another service: a service token never reads another service's
\* deployment.
ThmC18 ==
    (answer # <<>> /\ answer.caller \in catalog.services) =>
    LET hits == {d \in catalog.deployments : d.id = answer.id}
    IN  /\ hits = {}
           => answer.result = [error |-> "NotFound", value |-> <<>>]
        /\ \A d \in hits :
             /\ d.service_id = answer.caller
                => answer.result = [error |-> "", value |-> <<d>>]
             /\ d.service_id # answer.caller
                => answer.result = [error |-> "WrongService", value |-> <<>>]
        /\ answer.result.value # <<>>
           => /\ answer.result.value[1] \in catalog.deployments
              /\ answer.result.value[1].service_id = answer.caller

\* C18 case: the deployment asked for exists and belongs to another service
WitC18 ==
    /\ answer # <<>>
    /\ answer.caller \in catalog.services
    /\ answer.result.error = "WrongService"
    /\ \E d \in catalog.deployments :
         d.id = answer.id /\ d.service_id # answer.caller
    /\ \E d \in catalog.deployments : d.service_id = answer.caller

\* ------------------------------------- further claims on process_step
\* the rows in the matching state that carry the name: the running ones,
\* else the pending ones
Matching(table, name) ==
    IF RowsNamed(table, name, {"running"}) # {}
    THEN RowsNamed(table, name, {"running"})
    ELSE RowsNamed(table, name, {"pending"})

\* C21: a pending step is promoted only when the incoming event matched a
\* running step: an event that matches a pending step, or matches nothing
\* and creates a step, changes no step but the matched or created one,
\* whatever its state.
ThmC21 ==
    [][LET e == last'.step IN
       (/\ Active(deployment)
        /\ RowsNamed(steps, e.name, {"running"}) = {})
       => IF RowsNamed(steps, e.name, {"pending"}) # {}
          THEN /\ Len(steps') = Len(steps)
               /\ \A i \in 1..Len(steps) :
                    i # Lowest(RowsNamed(steps, e.name, {"pending"}))
                    => steps'[i] = steps[i]
          ELSE /\ Len(steps') = Len(steps) + 1
               /\ \A i \in 1..Len(steps) : steps'[i] = steps[i]]_vars

\* C21 case: a pending step was matched and closed with success while
\* another step stayed pending
WitC21 ==
    /\ last.outcome = "updated" /\ last.matched = "pending"
    /\ last.step.state = "success"
    /\ steps[last.returned].state = "success"
    /\ \E i \in 1..Len(steps) : i # last.returned /\ steps[i].state = "pending"

\* C22 as stated: when several steps in the matching state carry the
\* incoming name, the first-created of them is updated and every other
\* step of that name is unchanged.
CexC22 ==
    [][LET e == last'.step
           m == Matching(steps, e.name)
       IN  (Active(deployment) /\ Cardinality(m) > 1)
           => /\ steps'[Lowest(m)].state = e.state
              /\ steps'[Lowest(m)].finished # NULL
              /\ \A i \in RowsNamed(steps, e.name, StepStates) \ {Lowest(m)} :
                   steps'[i] = steps[i]]_vars

\* C22: when several steps in the matching state (running, else pending)
\* carry the incoming name, the first-created of them is updated and the
\* others of them are unchanged; a step of that name in another state is
\* unchanged or, if pending while a running step was matched, promoted.
ThmC22 ==
    [][LET e == last'.step
           m == Matching(steps, e.name)
       IN  (Active(deployment) /\ Cardinality(m) > 1)
           => /\ Len(steps') = Len(steps)
              /\ steps'[Lowest(m)].state = e.state
              /\ steps'[Lowest(m)].message = e.message
              /\ steps'[Lowest(m)].finished # NULL
              /\ \A i \in m \ {Lowest(m)} : steps'[i] = steps[i]
              /\ \A i \in RowsNamed(steps, e.name, StepStates) \ m :
                   steps'[i] \in {steps[i],
                                  [steps[i] EXCEPT !.state = "running"]}]_vars

\* C22 case: two running steps of one name, the first-created closed with
\* success, the second still running
WitC22 ==
    /\ Len(steps) >= 2
    /\ steps[1].name = steps[2].name
    /\ last.outcome = "updated" /\ last.matched = "running"
    /\ last.returned = 1 /\ last.promoted # 2
    /\ last.step.state = "success"
    /\ steps[1].state = "success"
    /\ steps[2].state = "running"

\* --------------------------------------------- claims on Service.delete
\* C23: delete() on a persisted service appends exactly one ServiceDeleted
\* event with that service's id to that service's own buffer and leaves the
\* buffer of every other Service instance unchanged.
CexC23 ==
    [][\A u \in Uows :
         bus'[u].produced # bus[u].produced
         => LET id == bus'[u].produced[Len(bus'[u].produced)].id
            IN  /\ events_of(u, id, service_events')
                     = Append(events_of(u, id, service_events),
                              ServiceDeleted(id))
                /\ \A v \in Uows : \A j \in bus[v].seen :
                     <<v, j>> # <<u, id>>
                     => events_of(v, j, service_events')
                          = events_of(v, j, service_events)]_vars

\* ----------------------------------------------- claims on termination
\* C24: when the script writes finitely many lines and closes its output
\* and every POST returns or raises a connection failure, the loop ends
\* normally, every line read and every event delivered, dropped after
\* three failed attempts or discarded as malformed.
CexC24 ==
    <>(/\ pc = "done"
       /\ stdout = <<>>
       /\ settled = parsed
       /\ parsed = Len(EventsRead))

\* ------------------------------------------- claims on finished steps
\* C25: a step in state success or failure is never modified again by any
\* later process_step call, whatever the name and state of the event, and
\* no step is ever deleted.
ThmC25 ==
    [][/\ Len(steps') >= Len(steps)
       /\ \A i \in 1..Len(steps) :
            /\ steps'[i].id = steps[i].id
            /\ steps[i].state \in Terminal => steps'[i] = steps[i]]_vars

\* C25 case: an event named like a finished step arrived and was recorded
\* in another row
WitC25 ==
    /\ last.outcome \in {"created", "updated"}
    /\ \E i \in 1..Len(steps) :
         /\ i # last.returned
         /\ steps[i].state \in Terminal
         /\ steps[i].name = last.step.name
         /\ steps[i].state # last.step.state

\* C26: every step in state success or failure has finished set, and the
\* step a process_step call returns has finished set and carries the id of
\* the deployment.
ThmC26 ==
    /\ \A i \in 1..Len(steps) :
         steps[i].state \in Terminal => steps[i].finished # NULL
    /\ last.outcome \in {"created", "updated"}
       => /\ steps[last.returned].finished # NULL
          /\ steps[last.returned].deployment_id = deployment.id

\* C26 case: a step that began pending without finished was closed by an
\* event, after another event had created a step
WitC26 ==
    /\ last.outcome = "updated" /\ last.matched = "pending"
    /\ last.step.state \in Terminal
    /\ steps[last.returned].state = last.step.state
    /\ steps[last.returned].finished # NULL
    /\ \E i \in 1..Len(steps) :
         i # last.returned /\ steps[i].state = "failure"

\* ------------------------------------------ claims on repeated syncing
\* C27: once the result of sync_services is applied to the target (updated
\* services added or written, deleted services removed), a second call with
\* the same source returns two empty lists; and within one call no name is
\* both in the updated and in the deleted list.
ThmC27 ==
    synced # <<>> =>
    /\ NamesOf(synced[1].updated) \cap NamesOf(synced[1].deleted) = {}
    /\ sync_applied
       => /\ synced[1].updated = <<>>
          /\ synced[1].deleted = <<>>
          /\ NamesOf(target_services) = NamesOf(source_services)

\* C27 case: the first call had added, overwritten and deleted services,
\* and the second call has returned
WitC27 ==
    /\ sync_applied
    /\ synced # <<>>
    /\ Len(source_services) = 2
    /\ Len(target_services) = 2
    /\ \E i \in 1..2 : target_services[i].id > 2
    /\ \E i \in 1..2 : target_services[i].id <= 2

TypeOK ==
    /\ Len(steps) <= MaxSteps
    /\ \A i \in 1..Len(steps) : steps[i].id = i
====
